---- MODULE Spec2Model ----
(***************************************************************************)
(* Model of evo/core/geometry.py: umeyama_alignment, arc_len and           *)
(* accumulated_distances.                                                  *)
(*                                                                         *)
(* Numbers.  The code computes in IEEE doubles; the model computes in      *)
(* exact rational arithmetic, extended by one absorbing element NaN that   *)
(* stands for every non-finite double (inf and nan).  Coordinates are      *)
(* integers counting micro-units (1e-6), so the tolerance 1e-6 of the code *)
(* is the number 1 and machine epsilon, compared with entries of the       *)
(* covariance (micro-units squared), is 2.2204e-16 / 1e-12.                *)
(*                                                                         *)
(* SVD.  Orthogonal matrices with rational entries that the model uses are *)
(* the signed permutation matrices; the inputs are drawn so that the       *)
(* covariance has a singular value decomposition among them, and svd       *)
(* returns every such decomposition (numpy fixes neither the signs nor the *)
(* order of equal singular values' vectors).                               *)
(***************************************************************************)
EXTENDS Integers, Sequences, FiniteSets, TLC

VARIABLES in_x, in_y, in_with_scale, pc, out, in_pts, pc_arc, pc_acc, arc, acc

vars == <<in_x, in_y, in_with_scale, pc, out, in_pts, pc_arc, pc_acc, arc, acc>>

(* ------------------------------ bounds --------------------------------- *)
\* most points of an alignment input
MaxN == 3
\* largest generating scale c0
MaxScale == 2
\* most points of a path
MaxPts == 4

\* dimensions m of the alignment inputs
Dims == {1, 2, 3}

(* --------------------------- real numbers ------------------------------ *)
NaN == [num |-> 0, den |-> 0]

Abs(a) == IF a < 0 THEN -a ELSE a

RECURSIVE GCD(_, _)
GCD(a, b) == IF b = 0 THEN a ELSE GCD(b, a % b)

Frac(n, d) ==
    IF d = 0 THEN NaN
    ELSE LET g == GCD(Abs(n), Abs(d))
             sg == IF d < 0 THEN -1 ELSE 1
         IN  [num |-> sg * (n \div g), den |-> sg * (d \div g)]

Q(n) == [num |-> n, den |-> 1]

IsFinite(a) == a.den # 0

RAdd(a, b) ==
    IF a.den = 0 \/ b.den = 0 THEN NaN
    ELSE IF a.den = 1 /\ b.den = 1 THEN [num |-> a.num + b.num, den |-> 1]
    ELSE Frac(a.num * b.den + b.num * a.den, a.den * b.den)

RNeg(a) == IF a.den = 0 THEN NaN ELSE [num |-> -a.num, den |-> a.den]

RSub(a, b) == RAdd(a, RNeg(b))

RMul(a, b) ==
    IF a.den = 0 \/ b.den = 0 THEN NaN
    ELSE IF a.den = 1 /\ b.den = 1 THEN [num |-> a.num * b.num, den |-> 1]
    ELSE Frac(a.num * b.num, a.den * b.den)

\* a / b; a division by zero gives inf or nan, both non-finite
RDiv(a, b) ==
    IF a.den = 0 \/ b.den = 0 THEN NaN
    ELSE Frac(a.num * b.den, a.den * b.num)

RAbs(a) == [num |-> Abs(a.num), den |-> a.den]

\* a > b as IEEE compares: false when either side is not a number
RGt(a, b) == a.den # 0 /\ b.den # 0 /\ a.num * b.den > b.num * a.den

RLt(a, b) == RGt(b, a)

RECURSIVE RSumTo(_, _)
RSumTo(f, n) == IF n = 0 THEN Q(0) ELSE RAdd(RSumTo(f, n - 1), f[n])

RSum(s) == RSumTo(s, Len(s))

(* ------------------------- vectors and matrices ------------------------ *)
\* a matrix is the sequence of its rows, as a numpy array a[r][c]
\* an array is held by value: Tup writes out the entries of the sequence f
Tup(f) == f \o <<>>

Rows(a) == Len(a)
Cols(a) == Len(a[1])
shape(a) == <<Rows(a), Cols(a)>>

Column(a, i) == Tup([r \in 1..Rows(a) |-> a[r][i]])

QVec(v) == Tup([r \in 1..Len(v) |-> Q(v[r])])
QMat(a) == Tup([r \in 1..Rows(a) |-> QVec(a[r])])

VSub(a, b) == Tup([r \in 1..Len(a) |-> RSub(a[r], b[r])])
VScale(c, a) == Tup([r \in 1..Len(a) |-> RMul(c, a[r])])

\* np.outer(a, b)
outer(a, b) == Tup([r \in 1..Len(a) |-> Tup([c \in 1..Len(b) |-> RMul(a[r], b[c])])])

MAdd(a, b) ==
    Tup([r \in 1..Rows(a) |-> Tup([c \in 1..Cols(a) |-> RAdd(a[r][c], b[r][c])])])
MScale(k, a) == Tup([r \in 1..Rows(a) |-> Tup([c \in 1..Cols(a) |-> RMul(k, a[r][c])])])

\* a.dot(b) for matrices
dot(a, b) ==
    Tup([r \in 1..Rows(a) |-> Tup([c \in 1..Cols(b) |->
        RSum(Tup([l \in 1..Cols(a) |-> RMul(a[r][l], b[l][c])]))])])

\* a.dot(v) for a matrix and a vector
dotv(a, v) ==
    Tup([r \in 1..Rows(a) |-> RSum(Tup([l \in 1..Cols(a) |-> RMul(a[r][l], v[l])]))])

Transpose(a) == Tup([c \in 1..Cols(a) |-> Tup([r \in 1..Rows(a) |-> a[r][c]])])

\* np.zeros((m, m)), np.eye(m), np.diag(d)
zeros(m) == Tup([r \in 1..m |-> Tup([c \in 1..m |-> Q(0)])])
eye(m) == Tup([r \in 1..m |-> Tup([c \in 1..m |-> IF r = c THEN Q(1) ELSE Q(0)])])
diag(d) ==
    Tup([r \in 1..Len(d) |-> Tup([c \in 1..Len(d) |-> IF r = c THEN d[r] ELSE Q(0)])])

\* np.trace
trace(a) == RSum([r \in 1..Rows(a) |-> a[r][r]])

\* np.linalg.det for m <= 3, by cofactor expansion
det(a) ==
    LET m == Rows(a)
        e(r, c) == a[r][c]
        M2(p, q, r, s) == RSub(RMul(p, s), RMul(q, r))
    IN  IF m = 1 THEN e(1, 1)
        ELSE IF m = 2 THEN M2(e(1, 1), e(1, 2), e(2, 1), e(2, 2))
        ELSE RAdd(RSub(RMul(e(1, 1), M2(e(2, 2), e(2, 3), e(3, 2), e(3, 3))),
                       RMul(e(1, 2), M2(e(2, 1), e(2, 3), e(3, 1), e(3, 3)))),
                  RMul(e(1, 3), M2(e(2, 1), e(2, 2), e(3, 1), e(3, 2))))

(* ------------------------- umeyama_alignment --------------------------- *)
\* tolerance = 1e-6, in micro-units
tolerance == 1

\* np.finfo(d.dtype).eps = 2.2204e-16, in micro-units squared
eps == Frac(10, 45036)

MaxAbs(v) ==
    LET a == {Abs(v[r]) : r \in 1..Len(v)}
    IN  CHOOSE b \in a : \A e \in a : e <= b

\* a check of the dimension only
ShapeMismatchRows(x, y) == Rows(x) # Rows(y)

\* x.shape != y.shape
ShapeMismatch(x, y) == shape(x) # shape(y)

\* zero_cols = np.max(np.abs(y), axis=0) < tolerance
ZeroCols(y) == Tup([i \in 1..Cols(y) |-> MaxAbs(Column(y, i)) < tolerance])

\* np.sum(zero_cols)
NumZeroCols(zero_cols) == Cardinality({i \in DOMAIN zero_cols : zero_cols[i]})

\* a mean over all columns, the masked ones too
MeanAll(a, zero_cols) ==
    LET n == Cols(a)
    IN  Tup([r \in 1..Rows(a) |-> RDiv(RSum(Tup([i \in 1..n |-> Q(a[r][i])])), Q(n))])

\* np.mean(a[:, ~zero_cols], axis=1): a mean over no column is 0/0
MeanKept(a, zero_cols) ==
    LET n == Cols(a)
        kept == {i \in 1..n : ~zero_cols[i]}
    IN  Tup([r \in 1..Rows(a) |->
            RDiv(RSum(Tup([i \in 1..n |-> IF i \in kept THEN Q(a[r][i]) ELSE Q(0)])),
                 Q(Cardinality(kept)))])

\* 1.0 / n * (np.linalg.norm(x - mean_x[:, np.newaxis])**2): the Frobenius
\* norm over all n columns, squared
SigmaX(x, mean_x) ==
    LET m == Rows(x)
        n == Cols(x)
        dev(r, i) == RSub(Q(x[r][i]), mean_x[r])
        rowsq(r) == RSum([i \in 1..n |-> RMul(dev(r, i), dev(r, i))])
    IN  RMul(RDiv(Q(1), Q(n)), RSum([r \in 1..m |-> rowsq(r)]))

\* the loop of lines 71-73, after i of its n rounds
RECURSIVE OuterSum(_, _, _, _, _, _)
OuterSum(x, y, mean_x, mean_y, zero_cols, i) ==
    IF i = 0 THEN zeros(Rows(x))
    ELSE LET prev == OuterSum(x, y, mean_x, mean_y, zero_cols, i - 1)
         IN  IF ~zero_cols[i]
             THEN MAdd(prev, outer(VSub(QVec(Column(y, i)), mean_y),
                                   VSub(QVec(Column(x, i)), mean_x)))
             ELSE prev

\* cov_xy = np.multiply(1.0 / (n - num_zero_cols), outer_sum)
CovXY(x, y, mean_x, mean_y, zero_cols) ==
    LET n == Cols(x)
    IN  MScale(RDiv(Q(1), Q(n - NumZeroCols(zero_cols))),
               OuterSum(x, y, mean_x, mean_y, zero_cols, n))

Perms(m) == {p \in [1..m -> 1..m] : \A i, j \in 1..m : p[i] = p[j] => i = j}
Signs(m) == [1..m -> {-1, 1}]

AllFinite(a) == \A r \in 1..Rows(a) : \A c \in 1..Cols(a) : IsFinite(a[r][c])

\* the signed permutation matrix whose column l has su[l] in row pu[l]
ColPerm(pu, su) ==
    Tup([r \in 1..Len(pu) |->
        Tup([c \in 1..Len(pu) |-> IF pu[c] = r THEN Q(su[c]) ELSE Q(0)])])

\* the signed permutation matrix whose row l has sv[l] in column pv[l]
RowPerm(pv, sv) ==
    Tup([r \in 1..Len(pv) |->
        Tup([c \in 1..Len(pv) |-> IF pv[r] = c THEN Q(sv[r]) ELSE Q(0)])])

\* the singular values of a, read at the places (pu[l], pv[l])
SingularAt(a, pu, pv) == Tup([l \in 1..Rows(a) |-> RAbs(a[pu[l]][pv[l]])])

\* the pairs (pu, pv) at whose places the entries of a that are not zero
\* stand, in descending order of magnitude.  The singular vectors of the
\* singular value zero span the null spaces; where these have two or more
\* dimensions the model lists their vectors in one order only.
SvdPlaces(a) ==
    LET m == Rows(a)
        Fits(pu, pv) ==
            LET d == SingularAt(a, pu, pv)
            IN  /\ \A l \in 1..(m - 1) : ~RLt(d[l], d[l + 1])
                /\ \A r \in 1..m : \A c \in 1..m :
                       a[r][c].num = 0 \/ (\E l \in 1..m : pu[l] = r /\ pv[l] = c)
                /\ \A l \in 1..(m - 1) :
                       d[l].num = 0 => pu[l] < pu[l + 1] /\ pv[l] < pv[l + 1]
    IN  {pp \in Perms(m) \X Perms(m) : Fits(pp[1], pp[2])}

\* the decompositions of a with the singular vectors at the places (pu, pv).
\* Turning the sign of column l of u together with that of row l of v changes
\* none of a = u.diag(d).v, u.s.v and det(u) * det(v): the model writes the
\* columns of u with the sign + and the rows of v with every sign that fits.
SvdAt(a, pu, pv) ==
    LET m == Rows(a)
        d == SingularAt(a, pu, pv)
        su == [l \in 1..m |-> 1]
        SignsFit(sv) ==
            \A l \in 1..m : a[pu[l]][pv[l]] = RMul(Q(su[l] * sv[l]), d[l])
    IN  {[ok |-> TRUE, u |-> ColPerm(pu, su), d |-> d, v |-> RowPerm(pv, sv)] :
            sv \in {tt \in Signs(m) : SignsFit(tt)}}

\* u, d, v = np.linalg.svd(a): every (u, d, v) with a = u.diag(d).v, u and v
\* signed permutation matrices and d >= 0 in descending order, up to the
\* order and the signs that SvdPlaces and SvdAt name.  On an input
\* that is not finite LAPACK does not converge and numpy raises LinAlgError
\* (ok = FALSE).
svd(a) ==
    LET m == Rows(a)
    IN  IF ~AllFinite(a)
        THEN {[ok |-> FALSE, u |-> <<>>, d |-> <<>>, v |-> <<>>]}
        ELSE UNION {SvdAt(a, pp[1], pp[2]) : pp \in SvdPlaces(a)}

\* a rank check that lets one more singular value vanish
DegenerateByTwo(d, m) == Cardinality({l \in 1..Len(d) : RGt(d[l], eps)}) < m - 2

\* np.count_nonzero(d > np.finfo(d.dtype).eps) < m - 1
Degenerate(d, m) == Cardinality({l \in 1..Len(d) : RGt(d[l], eps)}) < m - 1

\* a sign test that looks at u only
IsReflectionOfU(u, v) == RLt(det(u), Q(0))

\* np.linalg.det(u) * np.linalg.det(v) < 0.0
IsReflection(u, v) == RLt(RMul(det(u), det(v)), Q(0))

\* s = np.eye(m), with s[m - 1, m - 1] = -1 for a reflection
SMatrix(u, v) ==
    LET m == Rows(u)
    IN  IF IsReflection(u, v)
        THEN [eye(m) EXCEPT ![m][m] = Q(-1)]
        ELSE eye(m)

\* a scale that is estimated whatever with_scale says
ScaleAlways(with_scale, sigma_x, d, s) ==
    RMul(RDiv(Q(1), sigma_x), trace(dot(diag(d), s)))

\* c = 1 / sigma_x * np.trace(np.diag(d).dot(s)) if with_scale else 1.0
Scale(with_scale, sigma_x, d, s) ==
    IF with_scale
    THEN RMul(RDiv(Q(1), sigma_x), trace(dot(diag(d), s)))
    ELSE Q(1)

\* t = mean_y - np.multiply(c, r.dot(mean_x))
Translation(mean_x, mean_y, r, c) == VSub(mean_y, VScale(c, dotv(r, mean_x)))

NoLocals ==
    [zero_cols |-> <<>>, mean_x |-> <<>>, mean_y |-> <<>>, sigma_x |-> NaN,
     cov_xy |-> <<>>, d |-> <<>>, det_uv |-> NaN, s |-> <<>>]

Raised(kind, msg, line, loc) ==
    [kind |-> kind, msg |-> msg, line |-> line, loc |-> loc,
     r |-> <<>>, t |-> <<>>, c |-> NaN]

Returned(loc, r, t, c) ==
    [kind |-> "return", msg |-> "", line |-> 95, loc |-> loc,
     r |-> r, t |-> t, c |-> c]

\* lines 76-95, for one decomposition dec that svd returned
AfterSvd(dec, m, with_scale, loc) ==
    LET loc_d == [loc EXCEPT !.d = dec.d]
        s == SMatrix(dec.u, dec.v)
        r == dot(dot(dec.u, s), dec.v)
        c == Scale(with_scale, loc.sigma_x, dec.d, s)
        t == Translation(loc.mean_x, loc.mean_y, r, c)
    IN  IF ~dec.ok
        THEN Raised("LinAlgError", "SVD did not converge", 77, loc)
        ELSE IF Degenerate(dec.d, m)
        THEN Raised("GeometryException",
                    "Degenerate covariance rank, Umeyama alignment is not possible",
                    79, loc_d)
        ELSE Returned([loc_d EXCEPT !.s = s,
                                    !.det_uv = RMul(det(dec.u), det(dec.v))],
                      r, t, c)

\* the outcomes of umeyama_alignment(x, y, with_scale): what it returns or
\* raises, with the values of its locals at that point
umeyama_alignment(x, y, with_scale) ==
    IF ShapeMismatch(x, y)
    THEN {Raised("GeometryException", "data matrices must have the same shape",
                 48, NoLocals)}
    ELSE LET m == Rows(x)
             n == Cols(x)
             zero_cols == ZeroCols(y)
             mean_x == MeanKept(x, zero_cols)
             mean_y == MeanKept(y, zero_cols)
             sigma_x == SigmaX(x, mean_x)
             cov_xy == CovXY(x, y, mean_x, mean_y, zero_cols)
             loc == [NoLocals EXCEPT !.zero_cols = zero_cols, !.mean_x = mean_x,
                                     !.mean_y = mean_y, !.sigma_x = sigma_x,
                                     !.cov_xy = cov_xy]
         IN  IF Len(zero_cols) # n \/ Rows(y) # m
             \* x[:, ~zero_cols] with a mask of another length, or an outer
             \* product of another shape added to outer_sum
             THEN {Raised("IndexError", "shapes do not match", 62,
                          [NoLocals EXCEPT !.zero_cols = zero_cols])}
             ELSE {AfterSvd(dec, m, with_scale, loc) : dec \in svd(cov_xy)}

(* ---------------------- arc_len, accumulated_distances ----------------- *)
\* a path x is the sequence of its points (the rows of an n x m array)

\* the square root, for the squares that the paths of the model produce
Sqrt(k) == CHOOSE r \in 0..k : r * r = k

SumSq(v) == IF Len(v) = 0 THEN 0 ELSE
    LET RECURSIVE SqTo(_)
        SqTo(j) == IF j = 0 THEN 0 ELSE SqTo(j - 1) + v[j] * v[j]
    IN  SqTo(Len(v))

\* np.linalg.norm(x[:-1] - x[1:], axis=1)
StepNorms(x) ==
    LET a == SubSeq(x, 1, Len(x) - 1)
        b == SubSeq(x, 2, Len(x))
    IN  [i \in 1..Len(a) |-> Sqrt(SumSq([j \in 1..Len(a[i]) |-> a[i][j] - b[i][j]]))]

RECURSIVE Sum(_)
Sum(s) == IF Len(s) = 0 THEN 0 ELSE Sum(SubSeq(s, 1, Len(s) - 1)) + s[Len(s)]

\* np.cumsum
cumsum(s) == [i \in 1..Len(s) |-> Sum(SubSeq(s, 1, i))]

arc_len(x) == Sum(StepNorms(x))

\* the running sums without the leading zero
accumulated_distances_unprefixed(x) == cumsum(StepNorms(x))

accumulated_distances(x) == <<0>> \o cumsum(StepNorms(x))

(* ------------------------------ inputs --------------------------------- *)
UnitVec(m, j, a) == [r \in 1..m |-> IF r = j THEN a ELSE 0]

\* the points of the alignment inputs: the origin, the unit points of the
\* axes and the mirror image of the first
PointSet(m) == {UnitVec(m, 1, 0), UnitVec(m, 1, -1)} \cup {UnitVec(m, j, 1) : j \in 1..m}

FromColumns(m, cols) == [r \in 1..m |-> [i \in 1..Len(cols) |-> cols[i][r]]]

XSet(m) == UNION {{FromColumns(m, cols) : cols \in [1..n -> PointSet(m)]} : n \in 1..MaxN}

IntEye(m) == [r \in 1..m |-> [c \in 1..m |-> IF r = c THEN 1 ELSE 0]]

\* the quarter turn in the plane of the first two axes
Rot90(m) ==
    [r \in 1..m |-> [c \in 1..m |->
        IF r = 1 /\ c = 2 THEN -1
        ELSE IF r = 2 /\ c = 1 THEN 1
        ELSE IF r = c /\ r > 2 THEN 1 ELSE 0]]

\* the mirror image in the last axis
Mirror(m) == [r \in 1..m |-> [c \in 1..m |-> IF r # c THEN 0 ELSE IF r = m THEN -1 ELSE 1]]

ProperRotations(m) == IF m = 1 THEN {IntEye(m)} ELSE {IntEye(m), Rot90(m)}

Translations(m) == {UnitVec(m, 1, 0), UnitVec(m, 1, 1)}

\* y = c0 * R0 * x + t0, column by column
Sim(c0, R0, t0, x) ==
    [r \in 1..Rows(x) |-> [i \in 1..Cols(x) |->
        LET RECURSIVE RowTo(_)
            RowTo(l) == IF l = 0 THEN 0 ELSE RowTo(l - 1) + R0[r][l] * x[l][i]
        IN  c0 * RowTo(Rows(x)) + t0[r]]]

\* y with its first column replaced by a column of zeros
ZeroFirst(y) == [r \in 1..Rows(y) |-> [i \in 1..Cols(y) |-> IF i = 1 THEN 0 ELSE y[r][i]]]

\* point sets of the shape of x: x under a similarity, the mirror image of x,
\* all points of y collapsed into one, and each of the former with its first
\* column lost (all zero)
SameShapeYs(x) ==
    LET m == Rows(x)
        sims == {Sim(c0, R0, t0, x) : c0 \in 1..MaxScale,
                                      R0 \in ProperRotations(m),
                                      t0 \in Translations(m)}
        mirrored == {Sim(1, Mirror(m), UnitVec(m, 1, 0), x)}
        collapsed == {Sim(0, IntEye(m), t0, x) : t0 \in Translations(m)}
    IN  sims \cup mirrored \cup collapsed
             \cup {ZeroFirst(yy) : yy \in sims \cup mirrored}

\* point sets of another shape: a column more, a column less, a row more
OtherShapeYs(x) ==
    LET m == Rows(x)
        n == Cols(x)
    IN  {[r \in 1..m |-> Append(x[r], 1)], Append(x, x[1])}
        \cup (IF n > 1 THEN {[r \in 1..m |-> SubSeq(x[r], 1, n - 1)]} ELSE {})

\* the covariance of x and y has a decomposition that the model can write
Representable(x, y) ==
    LET zero_cols == ZeroCols(y)
        mean_x == MeanKept(x, zero_cols)
        mean_y == MeanKept(y, zero_cols)
        cov_xy == CovXY(x, y, mean_x, mean_y, zero_cols)
    IN  ~AllFinite(cov_xy) \/ SvdPlaces(cov_xy) # {}

NoOutcome == Raised("", "", 0, NoLocals)

(* ----------------------------- alignment ------------------------------- *)
InitAlign ==
    /\ in_x \in UNION {XSet(m) : m \in Dims}
    /\ in_y \in {yy \in SameShapeYs(in_x) : Representable(in_x, yy)}
                \cup OtherShapeYs(in_x)
    /\ in_with_scale \in BOOLEAN
    /\ pc = "call"
    /\ out = NoOutcome

Init ==
    /\ InitAlign
    /\ in_pts = <<>> /\ pc_arc = "idle" /\ pc_acc = "idle" /\ arc = 0 /\ acc = <<>>

\* one call umeyama_alignment(in_x, in_y, in_with_scale)
Align ==
    /\ pc = "call"
    /\ \E o \in umeyama_alignment(in_x, in_y, in_with_scale) : out' = o
    /\ pc' = "done"
    /\ UNCHANGED <<in_x, in_y, in_with_scale, in_pts, pc_arc, pc_acc, arc, acc>>

Next == Align

Spec == Init /\ [][Next]_vars

(* ------------------------------- paths --------------------------------- *)
PathPoints == {<<0, 0>>, <<1, 0>>, <<1, 1>>, <<4, 0>>, <<0, 3>>}

IsSquare(k) == \E r \in 0..k : r * r = k

\* every step of the path has a length that the model can write
IntegerSteps(p) ==
    \A i \in 1..(Len(p) - 1) :
        IsSquare(SumSq([j \in 1..Len(p[i]) |-> p[i][j] - p[i + 1][j]]))

PathSet == {p \in UNION {[1..n -> PathPoints] : n \in 1..MaxPts} : IntegerSteps(p)}

InitPath ==
    /\ in_pts \in PathSet
    /\ pc_arc = "call" /\ pc_acc = "call" /\ arc = 0 /\ acc = <<>>
    /\ in_x = <<>> /\ in_y = <<>> /\ in_with_scale = FALSE
    /\ pc = "idle" /\ out = NoOutcome

\* one call arc_len(in_pts)
ArcLen ==
    /\ pc_arc = "call"
    /\ arc' = arc_len(in_pts)
    /\ pc_arc' = "done"
    /\ UNCHANGED <<in_x, in_y, in_with_scale, pc, out, in_pts, pc_acc, acc>>

\* one call accumulated_distances(in_pts)
AccDist ==
    /\ pc_acc = "call"
    /\ acc' = accumulated_distances(in_pts)
    /\ pc_acc' = "done"
    /\ UNCHANGED <<in_x, in_y, in_with_scale, pc, out, in_pts, pc_arc, arc>>

NextPath == ArcLen \/ AccDist

SpecPath == InitPath /\ [][NextPath]_vars

(* ------------------------------ claims --------------------------------- *)
Done == pc = "done"
Returns == Done /\ out.kind = "return"
DimM == Len(in_x)
NumN == Len(in_x[1])

\* in_x and in_y have different shapes, read off the arrays themselves
ShapesDiffer ==
    \/ Len(in_x) # Len(in_y)
    \/ \E r \in 1..Len(in_x) : Len(in_x[r]) # Len(in_y[r])

\* the columns of in_y that hold no coordinate of magnitude 1e-6 or more
Masked == {i \in 1..Len(in_y[1]) : \A r \in 1..Len(in_y) : in_y[r][i] < tolerance /\ -in_y[r][i] < tolerance}

\* in_y is c0 * R0 * in_x + t0
GeneratedBy(c0, R0, t0) == in_y = Sim(c0, R0, t0, in_x)

\* in_x holds two different points
Spread == \E i, j \in 1..Len(in_x[1]) : \E r \in 1..Len(in_x) : in_x[r][i] # in_x[r][j]

\* C1: with with_scale=True, for y generated as c0*R0*x + t0 from a proper
\* rotation, a translation and a scale, the call returns (R0, t0, c0), also
\* when columns of y are masked.  Stated for point sets of two or more
\* different points and for the calls that do not signal the Geometry Error.
C1_RecoversSimilarity ==
    (Done /\ in_with_scale /\ Spread /\ out.kind # "GeometryException") =>
        \A c0 \in 1..MaxScale : \A R0 \in ProperRotations(DimM) :
            \A t0 \in Translations(DimM) :
                GeneratedBy(c0, R0, t0) =>
                    /\ out.kind = "return"
                    /\ out.r = QMat(R0)
                    /\ out.t = QVec(t0)
                    /\ out.c = Q(c0)

\* C2: for x == y, with either value of with_scale, the call returns the
\* identity, the zero vector and 1.  Stated for point sets of two or more
\* different points and for the calls that do not signal the Geometry Error.
C2_IdentityOnEqualInputs ==
    (Done /\ in_x = in_y /\ Spread /\ out.kind # "GeometryException") =>
        /\ out.kind = "return"
        /\ out.r = eye(DimM)
        /\ out.t = [r \in 1..DimM |-> Q(0)]
        /\ out.c = Q(1)

\* C3: a returned rotation r = u.s.v is orthogonal with determinant +1, and
\* s[m-1, m-1] is -1 exactly when det(u) * det(v) < 0.
C3_ProperRotation ==
    Returns =>
        /\ dot(out.r, Transpose(out.r)) = eye(DimM)
        /\ det(out.r) = Q(1)
        /\ (out.loc.s[DimM][DimM] = Q(-1)) <=> RLt(out.loc.det_uv, Q(0))
        /\ \A r \in 1..DimM : \A c \in 1..DimM :
               (r # DimM \/ c # DimM) => out.loc.s[r][c] = eye(DimM)[r][c]

\* C4: inputs of different shapes: the Geometry Error of line 48 is raised,
\* for either with_scale, nothing has been computed and nothing is returned.
C4_ShapeMismatchRaises ==
    (Done /\ ShapesDiffer) =>
        /\ out.kind = "GeometryException"
        /\ out.line = 48
        /\ out.loc = NoLocals
        /\ out.r = <<>> /\ out.t = <<>>

\* the number of singular values of a covariance that exceed eps: the
\* magnitudes of its entries that do (it has one entry per row and column)
NumExceeding(cov) ==
    Cardinality({rc \in (1..Len(cov)) \X (1..Len(cov)) : RGt(RAbs(cov[rc[1]][rc[2]]), eps)})

\* C5: for inputs of equal shape the Geometry Error is signalled exactly when
\* fewer than m-1 singular values of cov_xy exceed machine epsilon, and then
\* nothing is returned.
C5_DegenerateExactly ==
    (Done /\ ~ShapesDiffer) =>
        /\ (out.kind = "GeometryException") <=> (NumExceeding(out.loc.cov_xy) < DimM - 1)
        /\ out.kind = "GeometryException" => out.r = <<>> /\ out.line = 79

\* C6: every call ends by returning (r, t, c) or by signalling the Geometry
\* Error, for a shape mismatch or a degenerate rank; no other failure occurs.
C6_OnlyGeometryErrors ==
    Done =>
        \/ out.kind = "return"
        \/ out.kind = "GeometryException" /\ out.line = 48 /\ ShapesDiffer
        \/ out.kind = "GeometryException" /\ out.line = 79 /\ ~ShapesDiffer

\* C7: with with_scale=False a returned scale is exactly 1.0 and the
\* translation is mean_y - r * mean_x.
C7_UnitScale ==
    (Returns /\ ~in_with_scale) =>
        /\ out.c = Q(1)
        /\ out.t = VSub(out.loc.mean_y, dotv(out.r, out.loc.mean_x))

\* C10: for m >= 2, a call with with_scale=True that reaches the scale
\* computation has sigma_x > 0.
C10_SigmaPositive ==
    (Returns /\ in_with_scale /\ DimM >= 2) => RGt(out.loc.sigma_x, Q(0))

\* C8: accumulated_distances(x) has one entry per point, entry 0 is 0 and
\* entry i is arc_len of the first i+1 points, so the last is arc_len(x);
\* for one point arc_len is 0 and accumulated_distances is [0].
C8_AccumulatedDistances ==
    /\ pc_acc = "done" =>
          /\ Len(acc) = Len(in_pts)
          /\ acc[1] = 0
          /\ \A i \in 2..Len(in_pts) : acc[i] = arc_len(SubSeq(in_pts, 1, i))
    /\ (pc_acc = "done" /\ pc_arc = "done") => acc[Len(acc)] = arc
    /\ (pc_arc = "done" /\ Len(in_pts) = 1) => arc = 0
    /\ (pc_acc = "done" /\ Len(in_pts) = 1) => acc = <<0>>

\* in_x with its column i replaced by the point p
WithColumn(i, p) ==
    [r \in 1..DimM |-> [j \in 1..NumN |-> IF j = i THEN p[r] ELSE in_x[r][j]]]

\* a point that column i of in_x does not hold
OtherPoint(i) ==
    IF Column(in_x, i) = UnitVec(DimM, 1, -1)
    THEN UnitVec(DimM, 1, 0)
    ELSE UnitVec(DimM, 1, -1)

\* what a call shows of its rotation, means and covariance
RotationView(o) == <<o.kind, o.r, o.loc.mean_x, o.loc.mean_y, o.loc.cov_xy>>

SumOver(S, f(_)) ==
    LET RECURSIVE Up(_)
        Up(i) == IF i = 0 THEN Q(0)
                 ELSE IF i \in S THEN RAdd(Up(i - 1), f(i)) ELSE Up(i - 1)
    IN  Up(NumN)

\* C9: a column is masked exactly when every coordinate of it in y is below
\* 1e-6 in magnitude; mean_x, mean_y and cov_xy are taken over the other
\* columns (cov_xy divided by their number), sigma_x over all n columns and
\* divided by n.  The means and the covariance do not depend on the values of
\* x in masked columns, nor does the rotation: the call with another point of
\* x in a masked column has an outcome with the same ones.
C9_MaskedColumns ==
    (Done /\ ~ShapesDiffer) =>
        LET L == out.loc
            kept == (1..NumN) \ Masked
            k == Cardinality(kept)
        IN  /\ \A i \in 1..NumN : L.zero_cols[i] <=> i \in Masked
            /\ k > 0 =>
                /\ \A r \in 1..DimM :
                      /\ RMul(Q(k), L.mean_x[r]) = SumOver(kept, LAMBDA i : Q(in_x[r][i]))
                      /\ RMul(Q(k), L.mean_y[r]) = SumOver(kept, LAMBDA i : Q(in_y[r][i]))
                /\ RMul(Q(NumN), L.sigma_x) =
                      RSum([r \in 1..DimM |->
                          SumOver(1..NumN, LAMBDA i :
                              RMul(RSub(Q(in_x[r][i]), L.mean_x[r]),
                                   RSub(Q(in_x[r][i]), L.mean_x[r])))])
                /\ \A r \in 1..DimM : \A c \in 1..DimM :
                      RMul(Q(k), L.cov_xy[r][c]) =
                          SumOver(kept, LAMBDA i :
                              RMul(RSub(Q(in_y[r][i]), L.mean_y[r]),
                                   RSub(Q(in_x[c][i]), L.mean_x[c])))
            /\ \A i \in Masked : \A p \in PointSet(DimM) :
                  /\ MeanKept(WithColumn(i, p), L.zero_cols) = L.mean_x
                  /\ CovXY(WithColumn(i, p), in_y, L.mean_x, L.mean_y, L.zero_cols)
                         = L.cov_xy
            /\ \A i \in Masked :
                  \E o \in umeyama_alignment(WithColumn(i, OtherPoint(i)), in_y,
                                             in_with_scale) :
                      RotationView(o) = RotationView(out)

(* ----------------------------- witnesses ------------------------------- *)
\* a covariance that lacks one rank, and a reflection that was corrected
C3_Witness ==
    /\ Returns /\ DimM >= 2
    /\ \E l \in 1..DimM : out.loc.d[l] = Q(0)
    /\ out.loc.s[DimM][DimM] = Q(-1)
    /\ RLt(out.loc.det_uv, Q(0))

\* x and y with different numbers of columns, with_scale=True
C4_Witness ==
    /\ Done /\ in_with_scale /\ Len(in_x[1]) # Len(in_y[1])
    /\ out.kind = "GeometryException"

\* y is twice a turned x, and the call without scale returns 1
C7_Witness ==
    /\ Returns /\ ~in_with_scale /\ Spread /\ DimM >= 2
    /\ GeneratedBy(2, Rot90(DimM), UnitVec(DimM, 1, 1))
    /\ out.c = Q(1)

\* the path (0,0), (1,0), (1,1) with arc length 2 and distances 0, 1, 2
C8_Witness ==
    /\ in_pts = <<<<0, 0>>, <<1, 0>>, <<1, 1>>>>
    /\ pc_arc = "done" /\ pc_acc = "done"
    /\ arc = 2 /\ acc = <<0, 1, 2>>

\* a masked column whose point of x changes sigma_x and the scale
C9_Witness ==
    /\ Returns /\ in_with_scale /\ DimM >= 2
    /\ \E i \in Masked : \E p \in PointSet(DimM) :
          /\ SigmaX(WithColumn(i, p), out.loc.mean_x) # out.loc.sigma_x
          /\ \A o \in umeyama_alignment(WithColumn(i, p), in_y, TRUE) :
                o.kind = "return" /\ o.r = out.r /\ o.c # out.c

\* a call with scale, in two or more dimensions, with a masked column
C10_Witness ==
    /\ Returns /\ in_with_scale /\ DimM >= 2 /\ Masked # {}
    /\ RGt(out.loc.sigma_x, Q(0))

====
